---- MODULE Spec2Model ----
(***************************************************************************)
(* Device components of dcim/models/device_components.py: the validation   *)
(* hooks (clean) of LinkTermination, PowerPort, FrontPort, Interface and   *)
(* DeviceBay, the cable trace and the cached connected endpoint of         *)
(* PathEndpoint, and the tables the components are stored in.              *)
(*                                                                         *)
(* Primary keys, devices, sites, VLANs and draws are integers >= 0; None   *)
(* is the integer -1, so that "is None" and Python truthiness are distinct *)
(* tests, as they are in the source.                                       *)
(***************************************************************************)
EXTENDS Integers, Sequences, FiniteSets, TLC

None == 0 - 1

\* Python truthiness of an optional integer: None and 0 are false.
Truthy(x) == x # None /\ x # 0

(***************************************************************************)
(* Bounds                                                                  *)
(***************************************************************************)
MaxDraw == 2          \* draws range over None and 0..MaxDraw
MaxPositions == 2     \* rear port positions range over 1..MaxPositions
MaxPathLen == 3       \* stored cable path nodes: 0..MaxPathLen
MaxPathPk == 3        \* primary keys of the cable paths an endpoint is given
MaxRequests == 2      \* concurrent requests editing device bays
MaxCalls == 2         \* get_queryset calls in one behaviour

Devices == {1, 2}
VirtualChassis == {1, 2}
InterfacePks == {1, 2}
VLANs == {1, 2, 3}
Nodes == {11, 12}
PowerPortPks == {1, 2}
Bays == {1, 2, 3}
BayDevices == {1, 2, 3}

\* Fixture: the site of each device (Device.site), and of each VLAN
\* (VLAN.site; VLAN 1 is global).
device_site(d) == d
vlan_site(v) == IF v = 1 THEN None ELSE v - 1

\* dcim.constants / dcim.choices
TYPE_VIRTUAL == "virtual"
TYPE_LAG == "lag"
TYPE_1GE_FIXED == "1000base-t"
TYPE_80211A == "ieee802.11a"
InterfaceTypes == {TYPE_VIRTUAL, TYPE_LAG, TYPE_1GE_FIXED, TYPE_80211A}
VIRTUAL_IFACE_TYPES == {TYPE_VIRTUAL, TYPE_LAG}
WIRELESS_IFACE_TYPES == {TYPE_80211A}

VARIABLES
    virtual_chassis,   \* Device.virtual_chassis of every device (None: no chassis)
    interface_device,  \* Interface.device of every stored interface
    obj,               \* the model instance an operation is applied to
    result,            \* outcome of the last operation on obj
    endpoint,          \* a PathEndpoint instance: its _path and its cached attribute
    returned,          \* what the last access of connected_endpoint returned
    first_path,        \* history: the _path read by the access that filled the cache
    powerports,        \* the PowerPort table: pk -> row
    request,           \* a request editing a PowerPort: its instance and progress
    devicebays,        \* the DeviceBay table: pk -> installed_device
    bay_requests,      \* the concurrent requests editing device bays
    bay_outcome,       \* outcome of the last step of a device bay request
    interfaces,        \* the Interface table: pk -> mode, untagged_vlan, tagged_vlans
    saved,             \* the last save() of an interface, if it was the last operation
    terminations,      \* the stored link terminations: pk -> cable
    cables,            \* the Cable table: pk -> termination A, termination B
    rearports,         \* the RearPort table: pk -> positions
    frontports,        \* the FrontPort table: pk -> rear_port, rear_port_position
    journal_objects,   \* the objects that exist: (content type, id) pairs
    journal_request,   \* the data handed to JournalEntrySerializer.validate
    journal_response,  \* what validate did with it
    viewable,          \* the objects each user may view, per model
    calls,             \* the get_queryset calls made so far, with what they returned
    draw_ports,        \* the PowerPort table as get_power_draw reads it
    draw_outlets,      \* the PowerOutlet table: pk -> power_port, feed_leg
    draw_result        \* what get_power_draw returned for PowerPort 1

world == <<virtual_chassis, interface_device>>
validate_vars == <<virtual_chassis, interface_device, obj, result>>
endpoint_vars == <<endpoint, returned, first_path>>
power_vars == <<powerports, request>>
bay_vars == <<devicebays, bay_requests, bay_outcome>>
iface_vars == <<interfaces, saved>>
cable_vars == <<terminations, cables>>
port_vars == <<rearports, frontports>>
table_vars == <<iface_vars, cable_vars, port_vars>>
single_vars == <<validate_vars, endpoint_vars, power_vars, bay_vars>>
journal_vars == <<journal_objects, journal_request, journal_response>>
graphql_vars == <<viewable, calls>>
draw_vars == <<draw_ports, draw_outlets, draw_result>>
call_vars == <<journal_vars, graphql_vars, draw_vars>>
vars == <<single_vars, table_vars, call_vars>>

(***************************************************************************)
(* Outcomes of clean(): the check that raised and the key of the           *)
(* ValidationError ("__all__" for an error without a field, OK for none).  *)
(***************************************************************************)
OK == "ok"
Pending == [op |-> "none"]
Raised(check, key) == [op |-> "clean", check |-> check, raised |-> key]
Passed == [op |-> "clean", check |-> "none", raised |-> OK]

\* The first check of the sequence that raises decides the outcome.
Range(seq) == {seq[i] : i \in 1..Len(seq)}

\* raises[c] is what check c raises (OK: nothing) when control reaches it.
RECURSIVE FirstRaise(_, _)
FirstRaise(checks, raises) ==
    IF checks = <<>> THEN Passed
    ELSE IF raises[Head(checks)] # OK
         THEN Raised(Head(checks), raises[Head(checks)])
         ELSE FirstRaise(Tail(checks), raises)

(***************************************************************************)
(* LinkTermination                                                         *)
(***************************************************************************)
LinkTermination_clean_mutant(o) == OK

LinkTermination_clean(o) ==
    IF o.mark_connected /\ Truthy(o.cable_id) THEN "mark_connected" ELSE OK

LinkTermination_occupied(o) == o.mark_connected \/ Truthy(o.cable_id)

(***************************************************************************)
(* PowerPort                                                               *)
(***************************************************************************)
PowerPort_draw_check_mutant(o) ==
    IF o.maximum_draw # None /\ o.allocated_draw # None
       /\ o.allocated_draw > o.maximum_draw + 1
    THEN "allocated_draw" ELSE OK

PowerPort_draw_check(o) ==
    IF o.maximum_draw # None /\ o.allocated_draw # None
       /\ o.allocated_draw > o.maximum_draw
    THEN "allocated_draw" ELSE OK

PowerPort_checks == <<"link_termination", "draw">>

PowerPort_raises(o) ==
    [check \in Range(PowerPort_checks) |->
        CASE check = "link_termination" -> LinkTermination_clean(o)
          [] check = "draw" -> PowerPort_draw_check(o)]

PowerPort_clean(o) == FirstRaise(PowerPort_checks, PowerPort_raises(o))

(***************************************************************************)
(* FrontPort                                                               *)
(***************************************************************************)
FrontPort_rear_port_check_mutant(o) == OK

FrontPort_rear_port_check(o) ==
    IF o.rear_port.device # o.device THEN "rear_port" ELSE OK

FrontPort_position_check(o) ==
    IF o.rear_port_position > o.rear_port.positions
    THEN "rear_port_position" ELSE OK

FrontPort_checks == <<"link_termination", "rear_port_device", "rear_port_position">>

FrontPort_raises(o) ==
    [check \in Range(FrontPort_checks) |->
        CASE check = "link_termination" -> LinkTermination_clean(o)
          [] check = "rear_port_device" -> FrontPort_rear_port_check(o)
          [] check = "rear_port_position" -> FrontPort_position_check(o)]

FrontPort_clean(o) == FirstRaise(FrontPort_checks, FrontPort_raises(o))

(***************************************************************************)
(* Interface                                                               *)
(***************************************************************************)
is_virtual(o) == o.type \in VIRTUAL_IFACE_TYPES
is_wireless(o) == o.type \in WIRELESS_IFACE_TYPES

\* The check with the cable test dropped.
Interface_virtual_cable_check_mutant(o) == OK

Interface_virtual_cable_check(o) ==
    IF is_virtual(o) /\ o.cable_id # None THEN "type" ELSE OK

Interface_virtual_mark_connected_check(o) ==
    IF is_virtual(o) /\ o.mark_connected THEN "mark_connected" ELSE OK

\* The elif of the parent check reads self.parent.virtual_chassis; an Interface
\* has no such attribute, so evaluating the condition raises AttributeError.
Interface_parent_device_check(o) ==
    IF o.parent # None /\ interface_device[o.parent] # o.device
    THEN IF virtual_chassis[o.device] = None THEN "parent"
         ELSE "AttributeError"
    ELSE OK

Interface_own_parent_check(o) ==
    IF Truthy(o.pk) /\ o.parent = o.pk THEN "parent" ELSE OK

Interface_physical_parent_check(o) ==
    IF o.type # TYPE_VIRTUAL /\ o.parent # None THEN "parent" ELSE OK

Interface_lag_device_check_mutant(o) ==
    IF o.lag # None /\ interface_device[o.lag] # o.device
       /\ virtual_chassis[o.device] = None
    THEN "lag" ELSE OK

Interface_lag_device_check(o) ==
    IF o.lag # None /\ interface_device[o.lag] # o.device
    THEN IF virtual_chassis[o.device] = None THEN "lag"
         ELSE IF virtual_chassis[interface_device[o.lag]] # virtual_chassis[o.device]
              THEN "lag" ELSE OK
    ELSE OK

Interface_virtual_lag_check(o) ==
    IF o.type = TYPE_VIRTUAL /\ o.lag # None THEN "lag" ELSE OK

Interface_own_lag_check(o) ==
    IF Truthy(o.pk) /\ o.lag = o.pk THEN "lag" ELSE OK

Interface_rf_role_check(o) ==
    IF o.rf_role # "" /\ ~is_wireless(o) THEN "rf_role" ELSE OK

Interface_rf_channel_check(o) ==
    IF o.rf_channel # "" /\ ~is_wireless(o) THEN "rf_channel" ELSE OK

Interface_rf_channel_width_check(o) ==
    IF Truthy(o.rf_channel_width) /\ ~is_wireless(o) THEN "rf_channel_width" ELSE OK

Interface_untagged_vlan_check_mutant(o) ==
    IF o.untagged_vlan # None
       /\ vlan_site(o.untagged_vlan) \notin {device_site(o.device)}
    THEN "untagged_vlan" ELSE OK

Interface_untagged_vlan_check(o) ==
    IF o.untagged_vlan # None
       /\ vlan_site(o.untagged_vlan) \notin {device_site(o.device), None}
    THEN "untagged_vlan" ELSE OK

Interface_checks ==
    <<"link_termination", "virtual_cable", "virtual_mark_connected",
      "parent_device", "own_parent", "physical_parent",
      "lag_device", "virtual_lag", "own_lag",
      "rf_role", "rf_channel", "rf_channel_width", "untagged_vlan">>

Interface_raises(o) ==
    [check \in Range(Interface_checks) |->
        CASE check = "link_termination" -> LinkTermination_clean(o)
          [] check = "virtual_cable" -> Interface_virtual_cable_check(o)
          [] check = "virtual_mark_connected" -> Interface_virtual_mark_connected_check(o)
          [] check = "parent_device" -> Interface_parent_device_check(o)
          [] check = "own_parent" -> Interface_own_parent_check(o)
          [] check = "physical_parent" -> Interface_physical_parent_check(o)
          [] check = "lag_device" -> Interface_lag_device_check(o)
          [] check = "virtual_lag" -> Interface_virtual_lag_check(o)
          [] check = "own_lag" -> Interface_own_lag_check(o)
          [] check = "rf_role" -> Interface_rf_role_check(o)
          [] check = "rf_channel" -> Interface_rf_channel_check(o)
          [] check = "rf_channel_width" -> Interface_rf_channel_width_check(o)
          [] check = "untagged_vlan" -> Interface_untagged_vlan_check(o)]

Interface_clean(o) == FirstRaise(Interface_checks, Interface_raises(o))

Interface_occupied(o) == LinkTermination_occupied(o) \/ Truthy(o.wireless_link_id)

(***************************************************************************)
(* PathEndpoint.trace                                                      *)
(***************************************************************************)
\* while (len(path) + 1) % 3: path.append(None)
RECURSIVE Pad(_)
Pad_mutant(path) == IF Len(path) % 3 # 0 THEN Append(path, None) ELSE path

Pad(path) == IF (Len(path) + 1) % 3 # 0 THEN Pad(Append(path, None)) ELSE path

\* list(zip(*[iter(path)] * 3)): complete groups of three; a trailing
\* incomplete group is dropped.
Zip3(path) ==
    [i \in 1..(Len(path) \div 3) |-> <<path[3 * i - 2], path[3 * i - 1], path[3 * i]>>]

\* o.path.pk = None stands for "_path is None"; o.path.nodes is what
\* _path.get_path() returns.
trace(o) ==
    IF o.path.pk = None THEN <<>>
    ELSE Zip3(Append(Pad(<<o.pk>> \o o.path.nodes), o.path.destination))

(***************************************************************************)
(* Validation of single instances: the inputs and the operations           *)
(***************************************************************************)
Bools == {TRUE, FALSE}
OptDraw == {None} \cup (0..MaxDraw)
OptCable == {None, 1}

CablePaths ==
    {[pk |-> None, nodes |-> <<>>, destination |-> None]} \cup
    UNION {[pk : {1}, nodes : [1..n -> Nodes], destination : {None} \cup Nodes]
           : n \in 0..MaxPathLen}

PowerPortInputs ==
    [model : {"PowerPort"}, pk : {None, 1}, mark_connected : Bools, cable_id : OptCable,
     maximum_draw : OptDraw, allocated_draw : OptDraw]

FrontPortInputs ==
    [model : {"FrontPort"}, device : Devices, mark_connected : Bools, cable_id : OptCable,
     rear_port : [device : Devices, positions : 1..MaxPositions],
     rear_port_position : 1..MaxPositions]

ConsolePortInputs ==
    [model : {"ConsolePort"}, pk : {1}, mark_connected : Bools, cable_id : OptCable,
     path : CablePaths]

\* rf_role, rf_channel, rf_channel_width: at most one of them set
RfInputs == {<<"", "", None>>, <<"ap", "", None>>, <<"", "2.4g-1-2412-22", None>>,
             <<"", "", 20>>}

\* A stored interface (pk set) is on the device the table records for it; a
\* wireless link is attached to wireless interfaces only.
InterfaceInputs ==
    {[model |-> "Interface", pk |-> pk, device |-> d, type |-> t,
      mark_connected |-> mc, cable_id |-> c, parent |-> par, lag |-> lag,
      rf_role |-> rf[1], rf_channel |-> rf[2], rf_channel_width |-> rf[3],
      untagged_vlan |-> v, wireless_link_id |-> w] :
        pk \in {None, 1}, d \in Devices, t \in InterfaceTypes, mc \in Bools,
        c \in OptCable, par \in {None} \cup InterfacePks,
        lag \in {None} \cup InterfacePks, rf \in RfInputs,
        v \in {None} \cup VLANs, w \in {None, 1}}

InterfaceInputOk(o) ==
    /\ o.pk # None => o.device = interface_device[o.pk]
    /\ o.wireless_link_id # None => is_wireless(o)

ConsolePort_checks == <<"link_termination">>
ConsolePort_raises(o) == [check \in Range(ConsolePort_checks) |-> LinkTermination_clean(o)]
ConsolePort_clean(o) == FirstRaise(ConsolePort_checks, ConsolePort_raises(o))

NoWorld ==
    /\ virtual_chassis = [d \in Devices |-> None]
    /\ interface_device = [i \in InterfacePks |-> 1]

ValidateIdle ==
    /\ NoWorld
    /\ obj = [model |-> "none"]
    /\ result = Pending

InitValidate ==
    /\ result = Pending
    /\ \/ obj \in PowerPortInputs /\ NoWorld
       \/ obj \in FrontPortInputs /\ NoWorld
       \/ obj \in ConsolePortInputs /\ NoWorld
       \/ /\ virtual_chassis \in [Devices -> {None} \cup VirtualChassis]
          /\ interface_device \in [InterfacePks -> Devices]
          /\ obj \in InterfaceInputs
          /\ InterfaceInputOk(obj)

PowerPortClean ==
    /\ obj.model = "PowerPort" /\ result = Pending
    /\ result' = PowerPort_clean(obj)
    /\ UNCHANGED <<world, obj, endpoint_vars, power_vars, bay_vars, table_vars, call_vars>>

FrontPortClean ==
    /\ obj.model = "FrontPort" /\ result = Pending
    /\ result' = FrontPort_clean(obj)
    /\ UNCHANGED <<world, obj, endpoint_vars, power_vars, bay_vars, table_vars, call_vars>>

ConsolePortClean ==
    /\ obj.model = "ConsolePort" /\ result = Pending
    /\ result' = ConsolePort_clean(obj)
    /\ UNCHANGED <<world, obj, endpoint_vars, power_vars, bay_vars, table_vars, call_vars>>

InterfaceClean ==
    /\ obj.model = "Interface" /\ result = Pending
    /\ result' = Interface_clean(obj)
    /\ UNCHANGED <<world, obj, endpoint_vars, power_vars, bay_vars, table_vars, call_vars>>

Occupied ==
    /\ obj.model \in {"PowerPort", "FrontPort", "ConsolePort"} /\ result = Pending
    /\ result' = [op |-> "_occupied", value |-> LinkTermination_occupied(obj)]
    /\ UNCHANGED <<world, obj, endpoint_vars, power_vars, bay_vars, table_vars, call_vars>>

InterfaceOccupied ==
    /\ obj.model = "Interface" /\ result = Pending
    /\ result' = [op |-> "_occupied", value |-> Interface_occupied(obj)]
    /\ UNCHANGED <<world, obj, endpoint_vars, power_vars, bay_vars, table_vars, call_vars>>

Trace ==
    /\ obj.model = "ConsolePort" /\ result = Pending
    /\ result' = [op |-> "trace", value |-> trace(obj)]
    /\ UNCHANGED <<world, obj, endpoint_vars, power_vars, bay_vars, table_vars, call_vars>>

(***************************************************************************)
(* PathEndpoint.connected_endpoint: the caching accessor                   *)
(***************************************************************************)
NoPath == [pk |-> None, destination |-> None]
EndpointPaths == [pk : 1..MaxPathPk, destination : {None} \cup Nodes]
NotAccessed == [op |-> "none"]

\* self._path.destination if self._path else None
Destination(path) == IF path.pk # None THEN path.destination ELSE None

connected_endpoint_uncached(e) == Destination(e.path)

\* the value the property returns on instance e
connected_endpoint(e) ==
    IF ~e.has_connected_endpoint THEN Destination(e.path) ELSE e.connected_endpoint

EndpointIdle ==
    /\ endpoint = [path |-> NoPath, has_connected_endpoint |-> FALSE,
                   connected_endpoint |-> None]
    /\ returned = NotAccessed
    /\ first_path = NoPath

InitEndpoint == EndpointIdle

\* dcim.signals set or replace the CablePath of the endpoint
SetPath ==
    /\ \E path \in EndpointPaths :
          /\ path # endpoint.path
          /\ endpoint' = [endpoint EXCEPT !.path = path]
    /\ returned' = NotAccessed
    /\ UNCHANGED <<first_path, validate_vars, power_vars, bay_vars, table_vars, call_vars>>

\* the CablePath is deleted (on_delete=SET_NULL) or cleared by the signals
ClearPath ==
    /\ endpoint.path # NoPath
    /\ endpoint' = [endpoint EXCEPT !.path = NoPath]
    /\ returned' = NotAccessed
    /\ UNCHANGED <<first_path, validate_vars, power_vars, bay_vars, table_vars, call_vars>>

AccessConnectedEndpoint ==
    /\ endpoint' = [endpoint EXCEPT !.has_connected_endpoint = TRUE,
                                    !.connected_endpoint = connected_endpoint(endpoint)]
    /\ returned' = [op |-> "connected_endpoint", value |-> connected_endpoint(endpoint)]
    /\ first_path' = IF endpoint.has_connected_endpoint THEN first_path ELSE endpoint.path
    /\ UNCHANGED <<validate_vars, power_vars, bay_vars, table_vars, call_vars>>

(***************************************************************************)
(* The PowerPort table: requests that edit, validate and save a port       *)
(***************************************************************************)
NoRequest == [stage |-> "idle"]

\* The instance a request assembles (an uncabled port).
PowerPortInstances ==
    [model : {"PowerPort"}, pk : {None} \cup PowerPortPks, mark_connected : {FALSE},
     cable_id : {None}, maximum_draw : OptDraw, allocated_draw : OptDraw]

PowerIdle ==
    /\ powerports = << >>
    /\ request = NoRequest

InitPowerPort == PowerIdle

\* A form or an API call assembles an instance: a new port, or a stored one.
EditPowerPort ==
    /\ request.stage = "idle"
    /\ \E o \in PowerPortInstances :
          /\ o.pk = None \/ o.pk \in DOMAIN powerports
          /\ request' = [stage |-> "edited", instance |-> o]
    /\ UNCHANGED <<powerports, validate_vars, endpoint_vars, bay_vars, table_vars, call_vars>>

\* full_clean(): the request ends when clean() raises
CleanPowerPort ==
    /\ request.stage = "edited"
    /\ request' = IF PowerPort_clean(request.instance).raised = OK
                  THEN [request EXCEPT !.stage = "cleaned"]
                  ELSE NoRequest
    /\ UNCHANGED <<powerports, validate_vars, endpoint_vars, bay_vars, table_vars, call_vars>>

\* What the table accepts: PositiveSmallIntegerField, null=True, for both draws.
PowerPort_storable(o) ==
    /\ o.maximum_draw = None \/ o.maximum_draw >= 0
    /\ o.allocated_draw = None \/ o.allocated_draw >= 0

NewPk(table, pks) == CHOOSE pk \in pks \ DOMAIN table : \A q \in pks \ DOMAIN table : pk <= q

\* Model.save(): it does not call clean(). "validated" records whether this
\* write came after a successful clean() of the written instance.
SavePowerPort ==
    /\ request.stage \in {"edited", "cleaned"}
    /\ PowerPort_storable(request.instance)
    /\ request.instance.pk = None => PowerPortPks \ DOMAIN powerports # {}
    /\ LET o == request.instance
           pk == IF o.pk = None THEN NewPk(powerports, PowerPortPks) ELSE o.pk
           row == [maximum_draw |-> o.maximum_draw, allocated_draw |-> o.allocated_draw,
                   validated |-> request.stage = "cleaned"]
       IN powerports' = [q \in DOMAIN powerports \cup {pk} |->
                            IF q = pk THEN row ELSE powerports[q]]
    /\ request' = NoRequest
    /\ UNCHANGED <<validate_vars, endpoint_vars, bay_vars, table_vars, call_vars>>

(***************************************************************************)
(* DeviceBay: concurrent requests that validate and then save a bay        *)
(***************************************************************************)
Requests == 1..MaxRequests

\* Fixture: bay b belongs to device b; the device type of device 3 is not a
\* parent type (DeviceType.is_parent_device).
bay_device(b) == b
is_parent_device(d) == d # 3

\* DeviceBay.objects.filter(installed_device=d).first()
current_bay(table, d) ==
    IF \E b \in Bays : table[b] = d
    THEN CHOOSE b \in Bays : table[b] = d /\ \A c \in Bays : table[c] = d => b <= c
    ELSE None

DeviceBay_parent_type_check(table, o) ==
    IF ~is_parent_device(o.device) THEN "__all__" ELSE OK

DeviceBay_self_check(table, o) ==
    IF o.device = o.installed_device THEN "__all__" ELSE OK

DeviceBay_installed_check(table, o) ==
    IF o.installed_device # None
       /\ current_bay(table, o.installed_device) # None
       /\ current_bay(table, o.installed_device) # o.pk
    THEN "installed_device" ELSE OK

DeviceBay_clean(table, o) ==
    IF DeviceBay_parent_type_check(table, o) # OK
    THEN Raised("parent_type", DeviceBay_parent_type_check(table, o))
    ELSE IF DeviceBay_self_check(table, o) # OK
    THEN Raised("self", DeviceBay_self_check(table, o))
    ELSE IF DeviceBay_installed_check(table, o) # OK
    THEN Raised("installed", DeviceBay_installed_check(table, o))
    ELSE Passed

\* installed_device is a OneToOneField: the column is unique, and a write
\* that would give two rows the same device raises IntegrityError.
unique_violation_foreign_key(table, o) == FALSE

unique_violation(table, o) ==
    /\ o.installed_device # None
    /\ \E b \in Bays : b # o.pk /\ table[b] = o.installed_device

DeviceBayInstances ==
    {[pk |-> b, device |-> bay_device(b), installed_device |-> d] :
        b \in Bays, d \in {None} \cup BayDevices}

BayIdle ==
    /\ devicebays = [b \in Bays |-> None]
    /\ bay_requests = [r \in Requests |-> NoRequest]
    /\ bay_outcome = "none"

InitDeviceBay == BayIdle

\* clean() of the instance of request r, against the table as it is now
DeviceBayClean(r) ==
    /\ bay_requests[r].stage = "idle"
    /\ \E o \in DeviceBayInstances :
          IF DeviceBay_clean(devicebays, o).raised = OK
          THEN /\ bay_requests' = [bay_requests EXCEPT ![r] =
                                       [stage |-> "cleaned", instance |-> o]]
               /\ bay_outcome' = "cleaned"
          ELSE /\ bay_requests' = bay_requests
               /\ bay_outcome' = DeviceBay_clean(devicebays, o).raised
    /\ UNCHANGED <<devicebays, validate_vars, endpoint_vars, power_vars, table_vars, call_vars>>

\* save() of the validated instance of request r
DeviceBaySave(r) ==
    /\ bay_requests[r].stage = "cleaned"
    /\ LET o == bay_requests[r].instance IN
          IF unique_violation(devicebays, o)
          THEN /\ bay_outcome' = "IntegrityError"
               /\ UNCHANGED devicebays
          ELSE /\ bay_outcome' = "saved"
               /\ devicebays' = [devicebays EXCEPT ![o.pk] = o.installed_device]
    /\ bay_requests' = [bay_requests EXCEPT ![r] = NoRequest]
    /\ UNCHANGED <<validate_vars, endpoint_vars, power_vars, table_vars, call_vars>>

(***************************************************************************)
(* BaseInterface.save: the Interface table and its tagged VLANs            *)
(***************************************************************************)
MODE_ACCESS == "access"
MODE_TAGGED == "tagged"
MODE_TAGGED_ALL == "tagged-all"
InterfaceModes == {"", MODE_ACCESS, MODE_TAGGED, MODE_TAGGED_ALL}
StoredInterfacePks == {1, 2}
TaggableVlans == {1, 2}
NotSaved == [op |-> "none"]

InterfacesIdle ==
    /\ interfaces = << >>
    /\ saved = NotSaved

\* if not self.mode: self.untagged_vlan = None
untagged_vlan_saved(o) == IF o.mode = "" THEN None ELSE o.untagged_vlan

tagged_vlans_saved_8021q_only(o, tagged) ==
    IF Truthy(o.pk) /\ o.mode = "" THEN {} ELSE tagged

\* if self.pk and self.mode != MODE_TAGGED: self.tagged_vlans.clear()
tagged_vlans_saved(o, tagged) ==
    IF Truthy(o.pk) /\ o.mode # MODE_TAGGED THEN {} ELSE tagged

\* The instance a form or an API call assembles: a new interface, or a stored one.
InterfaceInstances ==
    [pk : {None} \cup StoredInterfacePks, mode : InterfaceModes,
     untagged_vlan : {None} \cup TaggableVlans]

\* BaseInterface.save(), with the write of Model.save()
SaveInterface ==
    /\ \E o \in InterfaceInstances :
          /\ o.pk = None \/ o.pk \in DOMAIN interfaces
          /\ o.pk = None => StoredInterfacePks \ DOMAIN interfaces # {}
          /\ LET pk == IF o.pk = None THEN NewPk(interfaces, StoredInterfacePks) ELSE o.pk
                 before == IF o.pk = None THEN {} ELSE interfaces[o.pk].tagged_vlans
                 row == [mode |-> o.mode, untagged_vlan |-> untagged_vlan_saved(o),
                         tagged_vlans |-> tagged_vlans_saved(o, before)]
             IN /\ interfaces' = [q \in DOMAIN interfaces \cup {pk} |->
                                     IF q = pk THEN row ELSE interfaces[q]]
                /\ saved' = [op |-> "save", pk |-> pk, stored |-> Truthy(o.pk),
                             mode |-> o.mode, tagged_before |-> before]
    /\ UNCHANGED <<single_vars, call_vars, cable_vars, port_vars>>

\* interface.tagged_vlans.set(...): the many-to-many table is written on its
\* own, after the interface was saved; it does not look at the mode.
SetTaggedVlans ==
    /\ \E pk \in DOMAIN interfaces : \E vlans \in SUBSET TaggableVlans :
          /\ vlans # interfaces[pk].tagged_vlans
          /\ interfaces' = [interfaces EXCEPT ![pk].tagged_vlans = vlans]
    /\ saved' = NotSaved
    /\ UNCHANGED <<single_vars, call_vars, cable_vars, port_vars>>

(***************************************************************************)
(* Link terminations and their Cables: creation, connection, deletion      *)
(***************************************************************************)
TerminationPks == {1, 2, 3}
CablePks == {1, 2}

\* A row is "new" before it is created, then "stored", then "deleted";
\* primary keys are not reused.
CablesIdle ==
    /\ terminations = [t \in TerminationPks |-> [state |-> "new", cable |-> None]]
    /\ cables = [c \in CablePks |-> [state |-> "new", a |-> None, b |-> None]]

CreateTermination ==
    /\ \E t \in TerminationPks :
          /\ terminations[t].state = "new"
          /\ terminations' = [terminations EXCEPT ![t].state = "stored"]
    /\ UNCHANGED <<cables, single_vars, call_vars, iface_vars, port_vars>>

\* A Cable is created between two stored terminations that have none; its
\* save records it in the cable field of both.
ConnectCable ==
    /\ \E a \in TerminationPks, b \in TerminationPks, c \in CablePks :
          /\ a # b
          /\ terminations[a].state = "stored" /\ terminations[a].cable = None
          /\ terminations[b].state = "stored" /\ terminations[b].cable = None
          /\ cables[c].state = "new"
          /\ \A d \in CablePks : d < c => cables[d].state # "new"
          /\ cables' = [cables EXCEPT ![c] = [state |-> "stored", a |-> a, b |-> b]]
          /\ terminations' = [terminations EXCEPT ![a].cable = c, ![b].cable = c]
    /\ UNCHANGED <<single_vars, call_vars, iface_vars, port_vars>>

cabled_to_no_relation(table, t) == {}

\* _cabled_as_a, _cabled_as_b: the Cables a deletion of termination t takes
\* with it
cabled_to(table, t) ==
    {c \in CablePks : table[c].state = "stored" /\ (table[c].a = t \/ table[c].b = t)}

\* cable: on_delete=SET_NULL, for the Cables in `gone`
cable_set_null(table, gone) ==
    [t \in TerminationPks |->
        IF table[t].cable \in gone THEN [table[t] EXCEPT !.cable = None] ELSE table[t]]

DeleteTermination ==
    /\ \E t \in TerminationPks :
          /\ terminations[t].state = "stored"
          /\ LET gone == cabled_to(cables, t) IN
                /\ cables' = [c \in CablePks |->
                                 IF c \in gone THEN [cables[c] EXCEPT !.state = "deleted"]
                                 ELSE cables[c]]
                /\ terminations' = [cable_set_null(terminations, gone)
                                       EXCEPT ![t].state = "deleted"]
    /\ UNCHANGED <<single_vars, call_vars, iface_vars, port_vars>>

DeleteCable ==
    /\ \E c \in CablePks :
          /\ cables[c].state = "stored"
          /\ cables' = [cables EXCEPT ![c].state = "deleted"]
          /\ terminations' = cable_set_null(terminations, {c})
    /\ UNCHANGED <<single_vars, call_vars, iface_vars, port_vars>>

(***************************************************************************)
(* The FrontPort and RearPort tables: validated creates and updates        *)
(***************************************************************************)
RearPortPks == {1, 2}
FrontPortPks == {1, 2}

PortsIdle ==
    /\ rearports = << >>
    /\ frontports = << >>

TablesIdle == InterfacesIdle /\ CablesIdle /\ PortsIdle

\* self.frontports.count()
frontport_count(table, pk) ==
    Cardinality({f \in DOMAIN table : table[f].rear_port = pk})

RearPort_positions_check(o) ==
    IF o.positions < frontport_count(frontports, o.pk) THEN "positions" ELSE OK

RearPort_checks == <<"link_termination", "positions">>

RearPort_raises(o) ==
    [check \in Range(RearPort_checks) |->
        CASE check = "link_termination" -> LinkTermination_clean(o)
          [] check = "positions" -> RearPort_positions_check(o)]

RearPort_clean(o) == FirstRaise(RearPort_checks, RearPort_raises(o))

\* The instances a form or an API call assembles (uncabled ports); the
\* device of a stored port is not changed.
RearPortInstances ==
    {o \in [pk : {None} \cup RearPortPks, device : Devices, mark_connected : {FALSE},
            cable_id : {None}, positions : 1..MaxPositions] :
        /\ o.pk # None => (o.pk \in DOMAIN rearports /\ o.device = rearports[o.pk].device)
        /\ o.pk = None => RearPortPks \ DOMAIN rearports # {}}

FrontPortInstances ==
    {o \in [pk : {None} \cup FrontPortPks, device : Devices, mark_connected : {FALSE},
            cable_id : {None}, rear_port_id : DOMAIN rearports,
            rear_port_position : 1..MaxPositions] :
        /\ o.pk # None => (o.pk \in DOMAIN frontports /\ o.device = frontports[o.pk].device)
        /\ o.pk = None => FrontPortPks \ DOMAIN frontports # {}}

\* the instance with its rear_port loaded from the table
WithRearPort(o) ==
    [model |-> "FrontPort", device |-> o.device, mark_connected |-> o.mark_connected,
     cable_id |-> o.cable_id, rear_port |-> rearports[o.rear_port_id],
     rear_port_position |-> o.rear_port_position]

\* unique_together = ('rear_port', 'rear_port_position')
position_taken(table, o) ==
    \E f \in DOMAIN table :
        /\ f # o.pk
        /\ table[f].rear_port = o.rear_port_id
        /\ table[f].rear_port_position = o.rear_port_position

\* clean() passes, then save()
SaveRearPort ==
    /\ \E o \in RearPortInstances :
          /\ RearPort_clean(o).raised = OK
          /\ LET pk == IF o.pk = None THEN NewPk(rearports, RearPortPks) ELSE o.pk
                 row == [device |-> o.device, positions |-> o.positions]
             IN rearports' = [q \in DOMAIN rearports \cup {pk} |->
                                 IF q = pk THEN row ELSE rearports[q]]
    /\ UNCHANGED <<frontports, single_vars, call_vars, iface_vars, cable_vars>>

\* clean() passes, then save()
SaveFrontPort ==
    /\ \E o \in FrontPortInstances :
          /\ FrontPort_clean(WithRearPort(o)).raised = OK
          /\ ~position_taken(frontports, o)
          /\ LET pk == IF o.pk = None THEN NewPk(frontports, FrontPortPks) ELSE o.pk
                 row == [device |-> o.device, rear_port |-> o.rear_port_id,
                         rear_port_position |-> o.rear_port_position]
             IN frontports' = [q \in DOMAIN frontports \cup {pk} |->
                                  IF q = pk THEN row ELSE frontports[q]]
    /\ UNCHANGED <<rearports, single_vars, call_vars, iface_vars, cable_vars>>

(***************************************************************************)
(* JournalEntrySerializer.validate                                         *)
(***************************************************************************)
ContentTypes == {"dcim.device", "dcim.site"}
ObjectIds == {1, 2}

NoJournalRequest == [data |-> << >>, model_valid |-> TRUE]
NoJournalResponse == [op |-> "none"]

JournalIdle ==
    /\ journal_objects = {}
    /\ journal_request = NoJournalRequest
    /\ journal_response = NoJournalResponse

\* The data dictionary: the keys it carries and their values.
JournalData ==
    {[k \in keys \cup {"comments"} |->
        CASE k = "assigned_object_type" -> ct
          [] k = "assigned_object_id" -> id
          [] OTHER -> "note"] :
        keys \in SUBSET {"assigned_object_type", "assigned_object_id"},
        ct \in ContentTypes, id \in ObjectIds}

\* model_valid: whether the model validation of super().validate passes.
JournalRequests == [data : JournalData, model_valid : Bools]

\* ContentType.get_object_for_this_type(id=...) finds the object; FALSE
\* stands for ObjectDoesNotExist.
get_object_for_this_type(objects, ct, id) == <<ct, id>> \in objects

\* validate without the lookup of the parent object.
JournalEntrySerializer_validate_mutant(data, objects, model_valid) ==
    IF ~model_valid
    THEN [op |-> "validate", check |-> "model", raised |-> "ValidationError"]
    ELSE [op |-> "validate", check |-> OK, raised |-> OK, data |-> data]

JournalEntrySerializer_validate(data, objects, model_valid) ==
    IF /\ "assigned_object_type" \in DOMAIN data
       /\ "assigned_object_id" \in DOMAIN data
       /\ ~get_object_for_this_type(objects, data["assigned_object_type"],
                                    data["assigned_object_id"])
    THEN [op |-> "validate", check |-> "assigned_object", raised |-> "ValidationError"]
    ELSE IF ~model_valid
    THEN [op |-> "validate", check |-> "model", raised |-> "ValidationError"]
    ELSE [op |-> "validate", check |-> OK, raised |-> OK, data |-> data]

InitJournal ==
    /\ journal_objects \in SUBSET (ContentTypes \X ObjectIds)
    /\ journal_request \in JournalRequests
    /\ journal_response = NoJournalResponse

Validate ==
    /\ journal_response = NoJournalResponse
    /\ journal_response' = JournalEntrySerializer_validate(
            journal_request.data, journal_objects, journal_request.model_valid)
    /\ UNCHANGED <<journal_objects, journal_request, single_vars, table_vars,
                   graphql_vars, draw_vars>>

(***************************************************************************)
(* GroupType / UserType (users/graphql/types.py)                           *)
(***************************************************************************)
RequestUsers == {1, 2}
Models == {"Group", "User"}
ModelObjects == {1, 2}
IncomingQuerysets == {{1}, {1, 2}}

GraphQLIdle ==
    /\ viewable = [u \in RequestUsers |-> [m \in Models |-> {}]]
    /\ calls = << >>

\* RestrictedQuerySet(model=...): every row of the model.
RestrictedQuerySet(model) == ModelObjects

\* RestrictedQuerySet.restrict(user, action): the rows of the queryset the
\* user's permissions for the action cover.
restrict(queryset, model, user, action) ==
    IF action = "view" THEN {o \in queryset : o \in viewable[user][model]} ELSE {}

\* get_queryset restricting the queryset it is handed.
GroupType_get_queryset_incoming(queryset, user) ==
    restrict(queryset, "Group", user, "view")

GroupType_get_queryset(queryset, user) ==
    restrict(RestrictedQuerySet("Group"), "Group", user, "view")

UserType_get_queryset(queryset, user) ==
    restrict(RestrictedQuerySet("User"), "User", user, "view")

InitGraphQL ==
    /\ viewable \in [RequestUsers -> [Models -> SUBSET ModelObjects]]
    /\ calls = << >>

GroupTypeGetQueryset ==
    /\ Len(calls) < MaxCalls
    /\ \E user \in RequestUsers, queryset \in IncomingQuerysets :
          calls' = Append(calls, [model |-> "Group", user |-> user,
                                  queryset |-> queryset,
                                  returned |-> GroupType_get_queryset(queryset, user)])
    /\ UNCHANGED <<viewable, single_vars, table_vars, journal_vars, draw_vars>>

UserTypeGetQueryset ==
    /\ Len(calls) < MaxCalls
    /\ \E user \in RequestUsers, queryset \in IncomingQuerysets :
          calls' = Append(calls, [model |-> "User", user |-> user,
                                  queryset |-> queryset,
                                  returned |-> UserType_get_queryset(queryset, user)])
    /\ UNCHANGED <<viewable, single_vars, table_vars, journal_vars, draw_vars>>

(***************************************************************************)
(* PowerPort.get_power_draw                                                *)
(***************************************************************************)
NoDraw == [op |-> "none"]

DrawIdle ==
    /\ draw_ports = << >>
    /\ draw_outlets = << >>
    /\ draw_result = NoDraw

CallsIdle == JournalIdle /\ GraphQLIdle /\ DrawIdle

\* ContentTypes of the link peers, feed phases and feed legs (dcim.choices)
POWEROUTLET_CT == "dcim.poweroutlet"
POWERFEED_CT == "dcim.powerfeed"
PHASE_SINGLE == "single-phase"
PHASE_3PHASE == "three-phase"
PowerOutletFeedLegChoices == <<"A", "B", "C">>

DrawPortPks == {1, 2, 3}
OutletPks == {1, 2}

\* Fixture: PowerFeed 1 is single-phase, every other feed three-phase.
feed_phase(id) == IF id = 1 THEN PHASE_SINGLE ELSE PHASE_3PHASE

NoPeer == [type |-> "", id |-> None]
OutletPeer(id) == [type |-> POWEROUTLET_CT, id |-> id]
FeedPeer(id) == [type |-> POWERFEED_CT, id |-> id]

PortRow(draws, peer) ==
    [maximum_draw |-> draws[1], allocated_draw |-> draws[2],
     _link_peer_type |-> peer.type, _link_peer_id |-> peer.id]

\* (maximum_draw, allocated_draw) of the ports that may be fed
DrawPairs == {<<None, None>>, <<None, 1>>, <<MaxDraw, 1>>}
\* ... and of a port whose draw is defined by hand
SetDraws == {<<None, 1>>, <<1, None>>, <<MaxDraw, 1>>}

OtherRows ==
    {PortRow(d, peer) : d \in DrawPairs,
                        peer \in {NoPeer, OutletPeer(1), OutletPeer(2), FeedPeer(1)}}
SelfPeers == {NoPeer, OutletPeer(1), FeedPeer(1), FeedPeer(2)}
OutletRows == [power_port : {None, 1, 2}, feed_leg : {"", "A", "B"}]

\* getattr(self._link_peer, 'phase', None); "" stands for None
link_peer_phase(o) ==
    IF o._link_peer_type = POWERFEED_CT /\ o._link_peer_id # None
    THEN feed_phase(o._link_peer_id) ELSE ""

\* PowerOutlet.objects.filter(power_port=self).values_list('pk')
outlet_ids(outlets, self) == {pk \in DOMAIN outlets : outlets[pk].power_port = self}

\* PowerOutlet.objects.filter(power_port=self, feed_leg=leg).values_list('pk')
outlet_ids_leg(outlets, self, leg) ==
    {pk \in outlet_ids(outlets, self) : outlets[pk].feed_leg = leg}

\* Sum(field): NULLs are skipped; None when no row has a value.
RECURSIVE Sum(_, _, _)
Sum(ports, pks, field) ==
    IF pks = {} THEN None
    ELSE LET pk == CHOOSE x \in pks : TRUE
             rest == Sum(ports, pks \ {pk}, field)
             v == ports[pk][field]
         IN  IF v = None THEN rest ELSE IF rest = None THEN v ELSE v + rest

\* x or 0
or_0(x) == IF Truthy(x) THEN x ELSE 0

\* The aggregate without the filter on _link_peer_type.
utilization_any_peer_type(ports, ids) ==
    LET linked == {pk \in DOMAIN ports : ports[pk]._link_peer_id \in ids}
    IN  [maximum_draw_total |-> Sum(ports, linked, "maximum_draw"),
         allocated_draw_total |-> Sum(ports, linked, "allocated_draw")]

utilization(ports, ids) ==
    LET linked == {pk \in DOMAIN ports :
                      /\ ports[pk]._link_peer_type = POWEROUTLET_CT
                      /\ ports[pk]._link_peer_id \in ids}
    IN  [maximum_draw_total |-> Sum(ports, linked, "maximum_draw"),
         allocated_draw_total |-> Sum(ports, linked, "allocated_draw")]

leg_entry(ports, outlets, self, leg) ==
    LET ids == outlet_ids_leg(outlets, self, leg)
        u == utilization(ports, ids)
    IN  [name |-> leg,
         allocated |-> or_0(u.allocated_draw_total),
         maximum |-> or_0(u.maximum_draw_total),
         outlet_count |-> Cardinality(ids)]

get_power_draw(ports, outlets, self) ==
    LET o == ports[self]
        ids == outlet_ids(outlets, self)
        u == utilization(ports, ids)
    IN  IF o.allocated_draw = None /\ o.maximum_draw = None
        THEN [allocated |-> or_0(u.allocated_draw_total),
              maximum |-> or_0(u.maximum_draw_total),
              outlet_count |-> Cardinality(ids),
              legs |-> IF link_peer_phase(o) = PHASE_3PHASE
                       THEN [i \in 1..Len(PowerOutletFeedLegChoices) |->
                               leg_entry(ports, outlets, self,
                                         PowerOutletFeedLegChoices[i])]
                       ELSE << >>]
        ELSE [allocated |-> or_0(o.allocated_draw),
              maximum |-> or_0(o.maximum_draw),
              outlet_count |-> Cardinality(ids),
              legs |-> << >>]

\* PowerPort 1 is the port asked for its draw.
InitDraw ==
    /\ draw_result = NoDraw
    /\ draw_outlets \in [OutletPks -> OutletRows]
    /\ \/ \E peer \in SelfPeers, r2 \in OtherRows, r3 \in OtherRows :
             draw_ports = <<PortRow(<<None, None>>, peer), r2, r3>>
       \/ \E d \in SetDraws, peer \in SelfPeers :
             draw_ports = <<PortRow(d, peer), PortRow(<<None, None>>, NoPeer),
                            PortRow(<<MaxDraw, 1>>, OutletPeer(1))>>

GetPowerDraw ==
    /\ draw_result = NoDraw
    /\ draw_result' = [op |-> "get_power_draw",
                       ret |-> get_power_draw(draw_ports, draw_outlets, 1)]
    /\ UNCHANGED <<draw_ports, draw_outlets, single_vars, table_vars,
                   journal_vars, graphql_vars>>

(***************************************************************************)
(* Specifications                                                          *)
(***************************************************************************)
Init == InitValidate /\ EndpointIdle /\ PowerIdle /\ BayIdle /\ TablesIdle /\ CallsIdle

Next ==
    \/ PowerPortClean
    \/ FrontPortClean
    \/ ConsolePortClean
    \/ InterfaceClean
    \/ Occupied
    \/ InterfaceOccupied
    \/ Trace

Spec == Init /\ [][Next]_vars

InitEndpointSpec == ValidateIdle /\ InitEndpoint /\ PowerIdle /\ BayIdle /\ TablesIdle /\ CallsIdle

NextEndpoint ==
    \/ SetPath
    \/ ClearPath
    \/ AccessConnectedEndpoint

SpecEndpoint == InitEndpointSpec /\ [][NextEndpoint]_vars

InitPowerPortSpec == ValidateIdle /\ EndpointIdle /\ InitPowerPort /\ BayIdle /\ TablesIdle /\ CallsIdle

NextPowerPort ==
    \/ EditPowerPort
    \/ CleanPowerPort
    \/ SavePowerPort

SpecPowerPort == InitPowerPortSpec /\ [][NextPowerPort]_vars

InitDeviceBaySpec == ValidateIdle /\ EndpointIdle /\ PowerIdle /\ InitDeviceBay /\ TablesIdle /\ CallsIdle

NextDeviceBay ==
    \/ \E r \in Requests : DeviceBayClean(r)
    \/ \E r \in Requests : DeviceBaySave(r)

SpecDeviceBay == InitDeviceBaySpec /\ [][NextDeviceBay]_vars

InitInterfaceSpec ==
    ValidateIdle /\ EndpointIdle /\ PowerIdle /\ BayIdle
    /\ InterfacesIdle /\ CablesIdle /\ PortsIdle /\ CallsIdle

NextInterface ==
    \/ SaveInterface
    \/ SetTaggedVlans

SpecInterface == InitInterfaceSpec /\ [][NextInterface]_vars

InitCableSpec ==
    ValidateIdle /\ EndpointIdle /\ PowerIdle /\ BayIdle
    /\ InterfacesIdle /\ CablesIdle /\ PortsIdle /\ CallsIdle

NextCable ==
    \/ CreateTermination
    \/ ConnectCable
    \/ DeleteTermination
    \/ DeleteCable

SpecCable == InitCableSpec /\ [][NextCable]_vars

InitPortSpec ==
    ValidateIdle /\ EndpointIdle /\ PowerIdle /\ BayIdle
    /\ InterfacesIdle /\ CablesIdle /\ PortsIdle /\ CallsIdle

NextPort ==
    \/ SaveRearPort
    \/ SaveFrontPort

SpecPort == InitPortSpec /\ [][NextPort]_vars

InitJournalSpec ==
    ValidateIdle /\ EndpointIdle /\ PowerIdle /\ BayIdle /\ TablesIdle
    /\ InitJournal /\ GraphQLIdle /\ DrawIdle

NextJournal == Validate

SpecJournal == InitJournalSpec /\ [][NextJournal]_vars

InitGraphQLSpec ==
    ValidateIdle /\ EndpointIdle /\ PowerIdle /\ BayIdle /\ TablesIdle
    /\ JournalIdle /\ InitGraphQL /\ DrawIdle

NextGraphQL ==
    \/ GroupTypeGetQueryset
    \/ UserTypeGetQueryset

SpecGraphQL == InitGraphQLSpec /\ [][NextGraphQL]_vars

InitDrawSpec ==
    ValidateIdle /\ EndpointIdle /\ PowerIdle /\ BayIdle /\ TablesIdle
    /\ JournalIdle /\ GraphQLIdle /\ InitDraw

NextDraw == GetPowerDraw

SpecDraw == InitDrawSpec /\ [][NextDraw]_vars

(***************************************************************************)
(* Properties                                                              *)
(***************************************************************************)
Cleaned(model) == result.op = "clean" /\ obj.model = model

\* The checks of a clean() that come before `check`.
Before(checks, check) ==
    {checks[i] : i \in {j \in 1..Len(checks) : \A k \in 1..j : checks[k] # check}}

\* clean() got as far as `check`: no earlier check raised.
Reached(checks, check) == result.check \notin Before(checks, check)

RaisedAt(check, key) == result.check = check /\ result.raised = key

DrawExceeds(o) ==
    o.maximum_draw # None /\ o.allocated_draw # None /\ o.allocated_draw > o.maximum_draw

\* C1: PowerPort.clean raises the error keyed 'allocated_draw' exactly when
\* both draws are set and allocated_draw > maximum_draw (the inherited
\* LinkTermination check runs first and its error takes precedence, but such
\* a port is rejected either way); a port that passed with both draws set has
\* allocated_draw <= maximum_draw; a port with a draw unset is never rejected
\* by this check.
C1_PowerPortDraw ==
    Cleaned("PowerPort") =>
        /\ Reached(PowerPort_checks, "draw") =>
              (RaisedAt("draw", "allocated_draw") <=> DrawExceeds(obj))
        /\ result.raised = "allocated_draw" => DrawExceeds(obj)
        /\ DrawExceeds(obj) => result.raised # OK
        /\ (result.raised = OK /\ obj.maximum_draw # None /\ obj.allocated_draw # None)
              => obj.allocated_draw <= obj.maximum_draw
        /\ (obj.maximum_draw = None \/ obj.allocated_draw = None)
              => result.raised # "allocated_draw"

C1_Witness ==
    /\ Cleaned("PowerPort")
    /\ RaisedAt("draw", "allocated_draw")
    /\ obj.allocated_draw = obj.maximum_draw + 1

\* C2: FrontPort.clean rejects every FrontPort whose rear port is on another
\* device, with the error on 'rear_port' whenever the inherited check has not
\* raised first; a FrontPort that passed is on the device of its rear port.
C2_FrontPortRearDevice ==
    Cleaned("FrontPort") =>
        /\ obj.rear_port.device # obj.device => result.raised # OK
        /\ Reached(FrontPort_checks, "rear_port_device") =>
              (RaisedAt("rear_port_device", "rear_port")
                  <=> obj.rear_port.device # obj.device)
        /\ result.raised = OK => obj.rear_port.device = obj.device

C2_Witness ==
    /\ Cleaned("FrontPort")
    /\ RaisedAt("rear_port_device", "rear_port")
    /\ obj.rear_port.device # obj.device

SameChassis(d, e) == virtual_chassis[d] # None /\ virtual_chassis[e] = virtual_chassis[d]

LagElsewhere == obj.lag # None /\ interface_device[obj.lag] # obj.device

\* C3: with the LAG on another device, Interface.clean passes the LAG check
\* only when the interface's device is in a virtual chassis and the LAG's
\* device is in the same one; otherwise the check raises on 'lag'.
C3_LagDevice ==
    (Cleaned("Interface") /\ LagElsewhere) =>
        /\ result.raised = OK => SameChassis(obj.device, interface_device[obj.lag])
        /\ Reached(Interface_checks, "lag_device") =>
              (RaisedAt("lag_device", "lag")
                  <=> ~SameChassis(obj.device, interface_device[obj.lag]))

C3_Witness ==
    /\ Cleaned("Interface") /\ LagElsewhere
    /\ result.raised = OK

ParentElsewhere == obj.parent # None /\ interface_device[obj.parent] # obj.device

\* C4: with the parent on another device, Interface.clean passes the parent
\* check when the interface's device is in a virtual chassis and the parent's
\* device is in the same one, and otherwise raises a ValidationError on
\* 'parent'.
C4_ParentDevice ==
    (Cleaned("Interface") /\ ParentElsewhere
        /\ Reached(Interface_checks, "parent_device")) =>
        IF SameChassis(obj.device, interface_device[obj.parent])
        THEN result.check # "parent_device"
        ELSE RaisedAt("parent_device", "parent")

RECURSIVE Flatten(_)
Flatten(tuples) == IF tuples = <<>> THEN <<>> ELSE Head(tuples) \o Flatten(Tail(tuples))

Nones(k) == [i \in 1..k |-> None]

\* C5: trace() is [] without a CablePath; otherwise a list of three-tuples
\* whose flattening is [self] + the path nodes + k Nones + [destination],
\* with k in 0..2 the least number that makes the length a multiple of 3.
C5_Trace ==
    result.op = "trace" =>
        IF obj.path.pk = None THEN result.value = <<>>
        ELSE /\ \A i \in 1..Len(result.value) : Len(result.value[i]) = 3
             /\ \E k \in 0..2 :
                   /\ Flatten(result.value) =
                         <<obj.pk>> \o obj.path.nodes \o Nones(k) \o <<obj.path.destination>>
                   /\ (Len(obj.path.nodes) + 2 + k) % 3 = 0
                   /\ \A j \in 0..(k - 1) : (Len(obj.path.nodes) + 2 + j) % 3 # 0
             /\ result.value[1][1] = obj.pk
             /\ result.value[Len(result.value)][3] = obj.path.destination

C5_Witness ==
    /\ result.op = "trace"
    /\ Len(obj.path.nodes) = 2
    /\ Len(result.value) = 2
    /\ result.value[2] = <<None, None, obj.path.destination>>

\* C6 as stated: every access returns the destination of the CablePath the
\* instance has at that access (None without one).
C6_CurrentDestination ==
    returned.op = "connected_endpoint" => returned.value = Destination(endpoint.path)

\* C6: every access returns the destination of the CablePath the instance had
\* at its first access (None without one); setting, replacing or clearing
\* the path afterwards does not change what is returned.
C6_FirstAccessDestination ==
    returned.op = "connected_endpoint" =>
        /\ returned.value = Destination(first_path)
        /\ endpoint.has_connected_endpoint
        /\ endpoint.connected_endpoint = returned.value

C6_Witness ==
    /\ returned.op = "connected_endpoint"
    /\ endpoint.path # first_path
    /\ returned.value = Destination(first_path)
    /\ returned.value # Destination(endpoint.path)

\* C7: the table accepts a PowerPort with allocated_draw > maximum_draw when
\* the write was not validated; every row whose write came after a
\* successful clean() has allocated_draw <= maximum_draw when both are set.
C7_ValidatedRows ==
    \A pk \in DOMAIN powerports :
        (powerports[pk].validated /\ powerports[pk].maximum_draw # None
            /\ powerports[pk].allocated_draw # None)
        => powerports[pk].allocated_draw <= powerports[pk].maximum_draw

C7_Witness ==
    \E pk \in DOMAIN powerports : \E qk \in DOMAIN powerports :
        /\ ~powerports[pk].validated
        /\ DrawExceeds(powerports[pk])
        /\ powerports[qk].validated
        /\ powerports[qk].maximum_draw # None /\ powerports[qk].allocated_draw # None

VlanElsewhere(o) ==
    /\ o.untagged_vlan # None
    /\ vlan_site(o.untagged_vlan) # None
    /\ vlan_site(o.untagged_vlan) # device_site(o.device)

\* C8: Interface.clean rejects, on 'untagged_vlan', an untagged VLAN whose
\* site is neither global nor the site of the interface's device (unless an
\* earlier check has raised first); a global VLAN or one of the device's site
\* is never rejected by this check.
C8_UntaggedVlanSite ==
    Cleaned("Interface") =>
        /\ VlanElsewhere(obj) => result.raised # OK
        /\ Reached(Interface_checks, "untagged_vlan") =>
              (RaisedAt("untagged_vlan", "untagged_vlan") <=> VlanElsewhere(obj))
        /\ result.raised = "untagged_vlan" => VlanElsewhere(obj)

C8_Witness ==
    /\ Cleaned("Interface")
    /\ RaisedAt("untagged_vlan", "untagged_vlan")
    /\ VlanElsewhere(obj)

\* C9: LinkTermination.clean raises on 'mark_connected' exactly when the
\* termination is marked connected and has a cable; a termination that
\* passed is not both; _occupied is true exactly when it is marked connected
\* or cabled or, for an Interface, has a wireless link.
C9_MarkConnected ==
    /\ result.op = "clean" =>
          /\ RaisedAt("link_termination", "mark_connected")
                <=> (obj.mark_connected /\ obj.cable_id # None)
          /\ result.raised = OK => ~(obj.mark_connected /\ obj.cable_id # None)
    /\ result.op = "_occupied" =>
          (result.value <=>
              \/ obj.mark_connected
              \/ obj.cable_id # None
              \/ (obj.model = "Interface" /\ obj.wireless_link_id # None))

C9_Witness ==
    /\ Cleaned("ConsolePort")
    /\ RaisedAt("link_termination", "mark_connected")
    /\ obj.mark_connected /\ obj.cable_id # None

\* C10: no device is installed in more than one bay, whatever the
\* interleaving of the requests' clean() and save(); clean() rejects a device
\* that the table has in another bay.
C10_OneBayPerDevice ==
    /\ \A b \in Bays : \A c \in Bays :
          (b # c /\ devicebays[b] # None) => devicebays[b] # devicebays[c]
    /\ \A o \in DeviceBayInstances :
          (/\ o.installed_device # None
           /\ \E b \in Bays : b # o.pk /\ devicebays[b] = o.installed_device)
          => DeviceBay_clean(devicebays, o).raised # OK

\* two requests passed clean() for the same device; the second save was refused
C10_Witness ==
    /\ bay_outcome = "IntegrityError"
    /\ \E b \in Bays : devicebays[b] # None

\* C11: right after a save of a stored interface whose mode is not 'tagged'
\* its tagged VLANs are empty; right after a save with blank mode its
\* untagged VLAN is None; a save in mode 'tagged' leaves the tagged VLANs as
\* they were.
C11_SaveClearsVlans ==
    saved.op = "save" =>
        /\ (saved.stored /\ saved.mode # MODE_TAGGED)
              => interfaces[saved.pk].tagged_vlans = {}
        /\ saved.mode = "" => interfaces[saved.pk].untagged_vlan = None
        /\ saved.mode = MODE_TAGGED
              => interfaces[saved.pk].tagged_vlans = saved.tagged_before

C11_Witness ==
    /\ saved.op = "save" /\ saved.stored
    /\ saved.mode = MODE_TAGGED_ALL
    /\ saved.tagged_before # {}
    /\ interfaces[saved.pk].tagged_vlans = {}

\* C12: no stored Cable has a deleted object as termination A or B, and no
\* stored termination's cable field refers to a deleted Cable.
C12_CableCascade ==
    /\ \A c \in CablePks :
          cables[c].state = "stored" =>
              /\ terminations[cables[c].a].state = "stored"
              /\ terminations[cables[c].b].state = "stored"
    /\ \A t \in TerminationPks :
          (terminations[t].state = "stored" /\ terminations[t].cable # None)
          => cables[terminations[t].cable].state = "stored"

\* a cabled termination was deleted: its Cable went with it and the far end
\* is left without a cable
C12_Witness ==
    \E c \in CablePks :
        /\ cables[c].state = "deleted"
        /\ terminations[cables[c].a].state = "deleted"
        /\ terminations[cables[c].b].state = "stored"
        /\ terminations[cables[c].b].cable = None

\* C17: with every write preceded by a successful clean() of the written
\* object, every stored FrontPort has rear_port_position <= the positions of
\* its rear port.
C17_PositionWithinRearPort ==
    \A f \in DOMAIN frontports :
        frontports[f].rear_port_position <= rearports[frontports[f].rear_port].positions

\* C16: Interface.clean rejects every virtual interface that has a cable (on
\* 'type', or on 'mark_connected' when it is marked connected as well, which
\* LinkTermination.clean finds first) and every virtual interface that is
\* marked connected (on 'mark_connected'); a virtual interface that passed
\* is neither cabled nor marked connected.
C16_VirtualNotConnected ==
    (Cleaned("Interface") /\ is_virtual(obj)) =>
        /\ (obj.cable_id # None /\ ~obj.mark_connected)
              => RaisedAt("virtual_cable", "type")
        /\ obj.mark_connected => result.raised = "mark_connected"
        /\ result.raised = OK => (obj.cable_id = None /\ ~obj.mark_connected)

C16_Witness ==
    /\ Cleaned("Interface") /\ is_virtual(obj)
    /\ obj.cable_id # None /\ ~obj.mark_connected
    /\ RaisedAt("virtual_cable", "type")

\* C13: validate raises a ValidationError whenever the data carries both
\* assigned_object_type and assigned_object_id and no object of that type
\* with that id exists; when it raises nothing it returns the data it was
\* given, and with both fields present the object they name exists.
C13_AssignedObjectExists ==
    journal_response.op = "validate" =>
        LET data == journal_request.data
            both == {"assigned_object_type", "assigned_object_id"} \subseteq DOMAIN data
        IN  /\ (both /\ <<data["assigned_object_type"], data["assigned_object_id"]>>
                            \notin journal_objects)
                  => journal_response.raised = "ValidationError"
            /\ journal_response.raised = OK =>
                  /\ journal_response.data = data
                  /\ both => <<data["assigned_object_type"], data["assigned_object_id"]>>
                                \in journal_objects

C13_Witness ==
    /\ journal_response.op = "validate"
    /\ journal_response.check = "assigned_object"
    /\ journal_response.raised = "ValidationError"
    /\ journal_request.model_valid
    /\ journal_objects # {}

\* C14: every get_queryset call returns only objects the requesting user may
\* view, and two calls on the same type by the same user return the same
\* set, whatever querysets they were handed.
C14_ViewRestricted ==
    \A i \in DOMAIN calls :
        /\ calls[i].returned \subseteq viewable[calls[i].user][calls[i].model]
        /\ \A j \in DOMAIN calls :
              (calls[j].model = calls[i].model /\ calls[j].user = calls[i].user)
                  => calls[j].returned = calls[i].returned

C14_Witness ==
    /\ Len(calls) >= 2
    /\ calls[1].model = "Group" /\ calls[2].model = "Group"
    /\ calls[1].user = calls[2].user
    /\ calls[1].queryset # calls[2].queryset
    /\ calls[1].returned = {2}

\* The outlets of PowerPort 1 (on the given leg), the ports whose link peer
\* is one of the given outlets, and the total of a field over them.
OutletsOf(legs) ==
    {pk \in OutletPks : draw_outlets[pk].power_port = 1
                          /\ draw_outlets[pk].feed_leg \in legs}

FedBy(outlets) ==
    {pk \in DrawPortPks : /\ draw_ports[pk]._link_peer_type = POWEROUTLET_CT
                          /\ draw_ports[pk]._link_peer_id \in outlets}

RECURSIVE Total(_, _, _)
Total(n, fed, field) ==
    IF n = 0 THEN 0
    ELSE Total(n - 1, fed, field)
            + (IF n \in fed /\ draw_ports[n][field] # None
               THEN draw_ports[n][field] ELSE 0)

AllLegs == {"", "A", "B", "C"}

\* C15: with both draws unset, get_power_draw returns the totals of
\* allocated_draw and maximum_draw over exactly the ports whose link peer is
\* an outlet of this port (0 when there are none), the number of its
\* outlets, and one entry per feed leg when its link peer is a three-phase
\* feed and none otherwise; with a draw set it returns its own values (0
\* for an unset one), its outlet count and no legs.
C15_PowerDraw ==
    draw_result.op = "get_power_draw" =>
        LET self == draw_ports[1]
            ret == draw_result.ret
            n == Cardinality(DrawPortPks)
            three_phase == /\ self._link_peer_type = POWERFEED_CT
                           /\ self._link_peer_id # None
                           /\ feed_phase(self._link_peer_id) = PHASE_3PHASE
        IN  /\ ret.outlet_count = Cardinality(OutletsOf(AllLegs))
            /\ (self.allocated_draw = None /\ self.maximum_draw = None) =>
                  /\ ret.allocated = Total(n, FedBy(OutletsOf(AllLegs)), "allocated_draw")
                  /\ ret.maximum = Total(n, FedBy(OutletsOf(AllLegs)), "maximum_draw")
                  /\ FedBy(OutletsOf(AllLegs)) = {} => (ret.allocated = 0 /\ ret.maximum = 0)
                  /\ ~three_phase => ret.legs = << >>
                  /\ three_phase =>
                        /\ Len(ret.legs) = Len(PowerOutletFeedLegChoices)
                        /\ \A i \in 1..Len(ret.legs) :
                              LET leg == PowerOutletFeedLegChoices[i]
                              IN  /\ ret.legs[i].name = leg
                                  /\ ret.legs[i].outlet_count = Cardinality(OutletsOf({leg}))
                                  /\ ret.legs[i].allocated =
                                        Total(n, FedBy(OutletsOf({leg})), "allocated_draw")
                                  /\ ret.legs[i].maximum =
                                        Total(n, FedBy(OutletsOf({leg})), "maximum_draw")
            /\ (self.allocated_draw # None \/ self.maximum_draw # None) =>
                  /\ ret.allocated = (IF self.allocated_draw = None THEN 0
                                       ELSE self.allocated_draw)
                  /\ ret.maximum = (IF self.maximum_draw = None THEN 0
                                     ELSE self.maximum_draw)
                  /\ ret.legs = << >>

\* A three-phase port with one fed port on leg A, and another port whose
\* link peer is a feed with the id of that outlet.
C15_Witness ==
    /\ draw_result.op = "get_power_draw"
    /\ draw_ports[1] = PortRow(<<None, None>>, FeedPeer(2))
    /\ draw_outlets[1] = [power_port |-> 1, feed_leg |-> "A"]
    /\ draw_ports[2] = PortRow(<<MaxDraw, 1>>, OutletPeer(1))
    /\ draw_ports[3] = PortRow(<<MaxDraw, 1>>, FeedPeer(1))
    /\ draw_result.ret.allocated = 1
    /\ Len(draw_result.ret.legs) = 3

====
